---- MODULE Spec2Model ----
(***************************************************************************)
(* Model of src/src/lightweight-client-express.js: the Express gateway     *)
(* that authenticates a request, validates a chat-completion body, starts  *)
(* the upstream call (streamNotionResponse) and either pipes the resulting *)
(* stream to the client or folds it into one JSON completion.              *)
(*                                                                         *)
(* Text is modelled as a sequence of tokens.  Authorization header:        *)
(*   "B" = `Bearer ` (the word and the space after it),  " " = one space,  *)
(*   "s" = the text of EXPECTED_TOKEN,  "x" = any other text without a     *)
(*   space.                                                                *)
(* Stream bytes:                                                           *)
(*   "D" = `data: ` (6 characters),  "X" = `[DONE]`,  "N" = line break,    *)
(*   "{" = `{"choices":[{"delta":{"content":"`,                            *)
(*   "}" = `"}}]}`,  "L" = `"},"finish_reason":"length"}]}`,               *)
(*   "a", "b" = one character of delta content.                            *)
(***************************************************************************)
EXTENDS Integers, Sequences, FiniteSets, TLC

\* ---------------------------------------------------------------- bounds
MaxHeaderLen == 2
MaxCookies == 1
MaxProxies == 1
MaxEvents == 3

\* ------------------------------------------------------------ vocabulary
NoHeader == <<"undefined">>
HeaderChars == {"B", " ", "s", "x"}
CredentialStates == {"Valid", "Invalid", "Cooldown", "Unverified"}
RouteStates == {"Valid", "Invalid", "Cooldown"}
MessagesShapes == {"absent", "notArray", "emptyArray", "nonEmpty"}
Bodies == {"parsed", "unparsable", "tooLarge"}

\* what a chat request's body gives: `messages` and `stream` have a value
\* only when the body was parsed
ChatBodies ==
  {<<b, m, st>> \in Bodies \X MessagesShapes \X BOOLEAN :
     b # "parsed" => (m = "absent" /\ ~st)}
ContentChars == {"a", "b", "X", "D"}

SeqsUpTo(S, n) == UNION {[1..k -> S] : k \in 0..n}

Headers == {NoHeader} \cup SeqsUpTo(HeaderChars, MaxHeaderLen)

\* frames the upstream producer writes, one complete event each
EvA == <<"D", "{", "a", "}", "N">>
EvL == <<"D", "{", "b", "L", "N">>
EvBad == <<"D", "{", "a", "N">>
EvQuote == <<"D", "{", "X", "}", "N">>
EvDone == <<"D", "X", "N">>
Frames == {EvA, EvL, EvBad, EvQuote, EvDone}

\* ------------------------------------------------------ string functions
startsWith(s, p) == Len(s) >= Len(p) /\ SubSeq(s, 1, Len(p)) = p

includes(s, c) == \E i \in 1..Len(s) : s[i] = c

substring(s, n) == SubSeq(s, n + 1, Len(s))

RECURSIVE trimStart(_)
trimStart(s) == IF s # <<>> /\ Head(s) = "N" THEN trimStart(Tail(s)) ELSE s

\* trailing white space: line breaks, and the space that ends `data: `
\* (what is left of that token is "d", the text `data:`)
RECURSIVE trimEnd(_)
trimEnd(s) ==
  IF s # <<>> /\ s[Len(s)] = "N" THEN trimEnd(SubSeq(s, 1, Len(s) - 1))
  ELSE IF s # <<>> /\ s[Len(s)] = "D" THEN SubSeq(s, 1, Len(s) - 1) \o <<"d">>
  ELSE s

trim(s) == trimEnd(trimStart(s))

\* String.prototype.split(' '): the fields between single spaces; the token
\* "B" is the field `Bearer` followed by a space
RECURSIVE split(_)
split(s) ==
  IF \A i \in 1..Len(s) : s[i] \notin {" ", "B"} THEN <<s>>
  ELSE LET i == CHOOSE j \in 1..Len(s) :
                  s[j] \in {" ", "B"} /\ \A k \in 1..(j - 1) : s[k] \notin {" ", "B"}
           field == IF s[i] = "B" THEN SubSeq(s, 1, i - 1) \o <<"Bearer">>
                                  ELSE SubSeq(s, 1, i - 1)
       IN <<field>> \o split(SubSeq(s, i + 1, Len(s)))

RECURSIVE join(_)
join(parts) == IF parts = <<>> THEN <<>> ELSE Head(parts) \o join(Tail(parts))

\* JSON.parse of an event payload: [ok, content]; ok = FALSE is a SyntaxError
JSONparse(s) ==
  IF /\ Len(s) >= 2
     /\ s[1] = "{"
     /\ s[Len(s)] \in {"}", "L"}
     /\ \A i \in 2..(Len(s) - 1) : s[i] \in ContentChars
  THEN [ok |-> TRUE, content |-> SubSeq(s, 2, Len(s) - 1)]
  ELSE [ok |-> FALSE, content |-> <<>>]

\* ------------------------------------------------------------ collaborators
EXPECTED_TOKEN == <<"s">>

getValidCount(pool) == Cardinality({i \in 1..Len(pool) : pool[i] = "Valid"})

getStatus(pool) == pool

\* -------------------------------------------------------------- responses
NoResponse == [status |-> 0, type |-> "none", kind |-> "none", sent |-> TRUE,
               content |-> <<>>, finish_reason |-> "none",
               total_cookies |-> 0, cookies |-> <<>>]

ErrorResponse(st, ty) == [NoResponse EXCEPT !.status = st, !.type = ty, !.kind = "error"]

\* ------------------------------------------------------------ middleware
\* app.use(express.json({ limit: '50mb' })): the status of the error the
\* parser passes on, 0 when it calls next()
expressJson(body) ==
  IF body = "tooLarge" THEN 413
  ELSE IF body = "unparsable" THEN 400
  ELSE 0

authenticate(authHeader) ==
  IF authHeader = NoHeader \/ ~startsWith(authHeader, <<"B">>)
  THEN "missing_or_malformed"
  ELSE IF split(authHeader)[2] # EXPECTED_TOKEN
       THEN "invalid_token"
       ELSE "next"

\* ------------------------------------------------------------------ state
VARIABLES
  INITIALIZED_SUCCESSFULLY, \* flag exported by lightweight-client.js
  cookies,                  \* cookieManager: state of each credential
  proxies,                  \* proxyPool: state of each egress route
  pc,                       \* "idle" | "awaiting" | "attached" | "done" | "exited"
  req,                      \* the request being served
  handlerEntered,           \* authenticate called next()
  poolCalls,                \* pool operations invoked for this request
  upstreamCalls,            \* calls of streamNotionResponse
  responses,                \* bodies of the res.json calls that returned
  statusCode,               \* res.statusCode
  headersSent,              \* res.headersSent
  resEnded,                 \* res.end() was called
  written,                  \* bytes the pipe handed to res.write
  piped,                    \* stream.pipe(res): "no", "flowing", "paused", "unpiped"
  reqClosed,                \* the request emitted its 'close' event
  closeListener,            \* req.on('close') is registered
  clientClosed,             \* the client's transport closed
  cancelCalled,             \* stream.end() was called by the close listener
  events,                   \* frames the upstream producer wrote
  wire,                     \* bytes buffered in the stream, not yet read
  producerEnded,            \* the writable side of the stream was ended
  terminal,                 \* 'end' / 'error' events emitted, in order
  chunks                    \* const chunks = [] of the non-streaming branch

vars == <<INITIALIZED_SUCCESSFULLY, cookies, proxies, pc, req, handlerEntered,
          poolCalls, upstreamCalls, responses, statusCode, headersSent,
          resEnded, written,
          piped, reqClosed, closeListener, clientClosed, cancelCalled,
          events, wire, producerEnded, terminal, chunks>>

config == <<INITIALIZED_SUCCESSFULLY, cookies, proxies>>
streamVars == <<events, wire, producerEnded, terminal, chunks>>
clientVars == <<piped, reqClosed, closeListener, clientClosed, cancelCalled>>

NoRequest == [route |-> "none", authorization |-> NoHeader, body |-> "parsed",
              messages |-> "absent", stream |-> FALSE]

Init ==
  /\ INITIALIZED_SUCCESSFULLY \in BOOLEAN
  /\ cookies \in SeqsUpTo(CredentialStates, MaxCookies)
  /\ proxies \in SeqsUpTo(RouteStates, MaxProxies)
  /\ (~INITIALIZED_SUCCESSFULLY => getValidCount(cookies) = 0)
  /\ pc = "idle"
  /\ req = NoRequest
  /\ handlerEntered = FALSE
  /\ poolCalls = {}
  /\ upstreamCalls = 0
  /\ responses = <<>>
  /\ statusCode = 200
  /\ headersSent = FALSE
  /\ resEnded = FALSE
  /\ written = <<>>
  /\ piped = "no"
  /\ reqClosed = FALSE
  /\ closeListener = FALSE
  /\ clientClosed = FALSE
  /\ cancelCalled = FALSE
  /\ events = <<>>
  /\ wire = <<>>
  /\ producerEnded = FALSE
  /\ terminal = <<>>
  /\ chunks = <<>>

\* res.json(body) sent with status st: throws once the headers are sent; on
\* a connection the client closed no header block is built, the call returns
\* and res.headersSent stays false
resSend(st, body) ==
  IF headersSent
  THEN UNCHANGED <<responses, headersSent, resEnded>>
  ELSE /\ responses' = Append(responses, [body EXCEPT !.status = st,
                                                      !.sent = ~clientClosed])
       /\ headersSent' = ~clientClosed
       /\ resEnded' = TRUE

\* res.json(body): the status is the one res.statusCode holds
resJson(body) ==
  /\ UNCHANGED statusCode
  /\ resSend(statusCode, body)

\* res.status(n).json(body)
resStatusJson(body) ==
  /\ statusCode' = body.status
  /\ resSend(body.status, body)

\* the parser passed an error on: express answers with the error's status,
\* no middleware after the parser and no handler runs
FinalHandler(st) ==
  /\ statusCode' = st
  /\ headersSent' = TRUE
  /\ resEnded' = TRUE
  /\ pc' = "done"
  /\ UNCHANGED <<responses, handlerEntered, poolCalls, upstreamCalls>>

Reject401 ==
  /\ resStatusJson(ErrorResponse(401, "authentication_error"))
  /\ pc' = "done"
  /\ UNCHANGED <<handlerEntered, poolCalls, upstreamCalls>>

\* app.get('/v1/models', authenticate, ...)
GetModels(authHeader, body) ==
  /\ pc = "idle"
  /\ req' = [NoRequest EXCEPT !.route = "models", !.authorization = authHeader,
                              !.body = body]
  /\ IF expressJson(body) # 0
     THEN FinalHandler(expressJson(body))
     ELSE IF authenticate(authHeader) # "next"
     THEN Reject401
     ELSE /\ handlerEntered' = TRUE
          /\ resJson([NoResponse EXCEPT !.kind = "models"])
          /\ pc' = "done"
          /\ UNCHANGED <<poolCalls, upstreamCalls>>
  /\ UNCHANGED <<config, written, clientVars, streamVars>>

\* app.get('/health', ...): no authentication
GetHealth(authHeader, body) ==
  /\ pc = "idle"
  /\ req' = [NoRequest EXCEPT !.route = "health", !.authorization = authHeader,
                              !.body = body]
  /\ IF expressJson(body) # 0
     THEN FinalHandler(expressJson(body))
     ELSE /\ handlerEntered' = TRUE
          /\ poolCalls' = {"cookieManager.getValidCount"}
          /\ resJson([NoResponse EXCEPT !.kind = "health",
                                        !.total_cookies = getValidCount(cookies)])
          /\ pc' = "done"
          /\ UNCHANGED upstreamCalls
  /\ UNCHANGED <<config, written, clientVars, streamVars>>

\* app.get('/cookies/status', authenticate, ...)
GetCookiesStatus(authHeader, body) ==
  /\ pc = "idle"
  /\ req' = [NoRequest EXCEPT !.route = "cookies", !.authorization = authHeader,
                              !.body = body]
  /\ IF expressJson(body) # 0
     THEN FinalHandler(expressJson(body))
     ELSE IF authenticate(authHeader) # "next"
     THEN Reject401
     ELSE /\ handlerEntered' = TRUE
          /\ poolCalls' = {"cookieManager.getValidCount", "cookieManager.getStatus"}
          /\ resJson([NoResponse EXCEPT !.kind = "cookies",
                                        !.total_cookies = getValidCount(cookies),
                                        !.cookies = getStatus(cookies)])
          /\ pc' = "done"
          /\ UNCHANGED upstreamCalls
  /\ UNCHANGED <<config, written, clientVars, streamVars>>

\* `!messages || !Array.isArray(messages) || messages.length === 0`
messagesInvalid(messages) == messages \in {"absent", "notArray", "emptyArray"}

\* app.post('/v1/chat/completions', authenticate, async ...): up to the await
PostChat(authHeader, body, messages, stream) ==
  /\ pc = "idle"
  /\ req' = [route |-> "chat", authorization |-> authHeader, body |-> body,
             messages |-> messages, stream |-> stream]
  /\ IF expressJson(body) # 0
     THEN FinalHandler(expressJson(body))
     ELSE IF authenticate(authHeader) # "next"
     THEN Reject401
     ELSE /\ handlerEntered' = TRUE
          /\ IF ~INITIALIZED_SUCCESSFULLY
             THEN /\ resStatusJson(ErrorResponse(500, "server_error"))
                  /\ pc' = "done"
                  /\ UNCHANGED <<poolCalls, upstreamCalls>>
             ELSE /\ poolCalls' = {"cookieManager.getValidCount"}
                  /\ IF getValidCount(cookies) = 0
                     THEN /\ resStatusJson(ErrorResponse(500, "server_error"))
                          /\ pc' = "done"
                          /\ UNCHANGED upstreamCalls
                     ELSE IF messagesInvalid(messages)
                     THEN /\ resStatusJson(ErrorResponse(400, "invalid_request_error"))
                          /\ pc' = "done"
                          /\ UNCHANGED upstreamCalls
                     ELSE /\ upstreamCalls' = upstreamCalls + 1
                          /\ pc' = "awaiting"
                          /\ UNCHANGED <<responses, statusCode, headersSent,
                                         resEnded>>
  /\ UNCHANGED <<config, written, clientVars, streamVars>>

\* `if (!res.headersSent)` of the stream error handler and of the catch block
headersNotSent_Inverted(sent) == sent

headersNotSent(sent) == ~sent

\* the request emits 'close' once, after its body was read: the tick that
\* does so runs before the continuation of the handler's await, and the
\* listeners registered by then are called
ReqClose ==
  /\ pc = "awaiting"
  /\ ~reqClosed
  /\ reqClosed' = TRUE
  /\ IF closeListener
     THEN /\ cancelCalled' = TRUE
          /\ producerEnded' = TRUE
     ELSE UNCHANGED <<cancelCalled, producerEnded>>
  /\ UNCHANGED <<config, pc, req, handlerEntered, poolCalls, upstreamCalls,
                 responses, statusCode, headersSent, resEnded, written, piped,
                 closeListener, clientClosed, events, wire, terminal, chunks>>

\* the promise of streamNotionResponse resolves: the listeners are attached
AwaitResolve ==
  /\ pc = "awaiting"
  /\ reqClosed
  /\ pc' = "attached"
  /\ piped' = IF req.stream THEN "flowing" ELSE "no"
  /\ closeListener' = req.stream
  /\ UNCHANGED <<config, req, handlerEntered, poolCalls, upstreamCalls,
                 responses, statusCode, headersSent, resEnded, written,
                 reqClosed, clientClosed, cancelCalled, streamVars>>

\* the promise of streamNotionResponse rejects: catch block
AwaitReject ==
  /\ pc = "awaiting"
  /\ reqClosed
  /\ pc' = "done"
  /\ IF headersNotSent(headersSent)
     THEN resStatusJson(ErrorResponse(500, "server_error"))
     ELSE UNCHANGED <<responses, statusCode, headersSent, resEnded>>
  /\ UNCHANGED <<config, req, handlerEntered, poolCalls, upstreamCalls,
                 written, clientVars, streamVars>>

\* the producer behind the stream writes one frame
UpstreamWrite(frame) ==
  /\ pc = "attached"
  /\ ~producerEnded
  /\ Len(events) < MaxEvents
  /\ events' = Append(events, frame)
  /\ wire' = wire \o frame
  /\ UNCHANGED <<config, pc, req, handlerEntered, poolCalls, upstreamCalls,
                 responses, statusCode, headersSent, resEnded, written, clientVars,
                 producerEnded, terminal, chunks>>

\* the producer ends the stream
UpstreamEnd ==
  /\ pc = "attached"
  /\ ~producerEnded
  /\ producerEnded' = TRUE
  /\ UNCHANGED <<config, pc, req, handlerEntered, poolCalls, upstreamCalls,
                 responses, statusCode, headersSent, resEnded, written, clientVars,
                 events, wire, terminal, chunks>>

\* stream.on('data', (chunk) => ...) of the non-streaming branch
onData(acc, chunkStr) ==
  IF startsWith(chunkStr, <<"D">>) /\ ~includes(chunkStr, "X")
  THEN LET dataJson == trim(substring(chunkStr, 1))
           chunkData == JSONparse(dataJson)
       IN IF dataJson # <<>> /\ chunkData.ok /\ chunkData.content # <<>>
          THEN Append(acc, chunkData.content)
          ELSE acc
  ELSE acc

\* a 'data' event carrying the first k buffered bytes. With stream.pipe(res)
\* the stream flows only while it is piped and not paused: res.write on a
\* closed connection sends no header, returns false and pauses the stream
\* for a 'drain' that never comes
StreamData(k) ==
  /\ pc = "attached"
  /\ "end" \notin {terminal[i] : i \in 1..Len(terminal)}
  /\ k \in 1..Len(wire)
  /\ req.stream => piped = "flowing"
  /\ LET chunk == SubSeq(wire, 1, k) IN
       /\ wire' = SubSeq(wire, k + 1, Len(wire))
       /\ IF req.stream
          THEN /\ written' = written \o chunk
               /\ headersSent' = (headersSent \/ ~clientClosed)
               /\ piped' = IF clientClosed THEN "paused" ELSE "flowing"
               /\ UNCHANGED chunks
          ELSE /\ chunks' = onData(chunks, chunk)
               /\ UNCHANGED <<written, headersSent, piped>>
  /\ UNCHANGED <<config, pc, req, handlerEntered, poolCalls, upstreamCalls,
                 responses, statusCode, resEnded, reqClosed, closeListener,
                 clientClosed,
                 cancelCalled, events, producerEnded, terminal>>

\* the body of the completion assembled by stream.on('end')
fullResponse(acc) ==
  [NoResponse EXCEPT !.kind = "completion",
                     !.content = join(acc), !.finish_reason = "stop"]

\* the 'end' event: every buffered byte was read and the producer ended;
\* a stream that was unpiped or paused by the pipe is read no further. The
\* pipe's res.end() carries no chunk and builds the header block even on a
\* closed connection; res.json(fullResponse) keeps the status a
\* res.status(500) before it has set, and when it throws (headers already
\* sent) the exception leaves the listener uncaught and the process exits
StreamEnd ==
  /\ pc = "attached"
  /\ producerEnded
  /\ wire = <<>>
  /\ "end" \notin {terminal[i] : i \in 1..Len(terminal)}
  /\ req.stream => piped = "flowing"
  /\ terminal' = Append(terminal, "end")
  /\ IF req.stream
     THEN /\ resEnded' = TRUE
          /\ headersSent' = TRUE
          /\ UNCHANGED <<responses, statusCode>>
          /\ UNCHANGED pc
     ELSE /\ resJson(fullResponse(chunks))
          /\ pc' = IF headersSent THEN "exited" ELSE pc
  /\ UNCHANGED <<config, req, handlerEntered, poolCalls, upstreamCalls,
                 written, clientVars, events, wire, producerEnded, chunks>>

\* reject(error) of a promise that resolve() has not settled: the rejection
\* passes the handler's try/catch by (the promise is returned, not awaited).
\* Where nothing handles it the process exits; where the router takes the
\* handler's promise the default error handler runs and the process goes on
UnhandledRejection == {"exited", "attached"}

\* the 'error' event
StreamError ==
  /\ pc = "attached"
  /\ "error" \notin {terminal[i] : i \in 1..Len(terminal)}
  /\ terminal' = Append(terminal, "error")
  /\ IF req.stream
     THEN /\ UNCHANGED <<responses, statusCode, headersSent, resEnded>>
          /\ UNCHANGED pc
     ELSE /\ IF headersNotSent(headersSent)
             THEN resStatusJson(ErrorResponse(500, "none"))
             ELSE UNCHANGED <<responses, statusCode, headersSent, resEnded>>
          /\ IF "end" \in {terminal[i] : i \in 1..Len(terminal)}
             THEN UNCHANGED pc
             ELSE pc' \in UnhandledRejection
  /\ UNCHANGED <<config, req, handlerEntered, poolCalls, upstreamCalls,
                 written, clientVars, events, wire, producerEnded, chunks>>

\* the client's transport closes: res emits 'close', which unpipes the
\* stream; the request emits no second 'close', so no listener of it runs
ClientClose ==
  /\ pc \in {"awaiting", "attached"}
  /\ ~clientClosed
  /\ ~resEnded
  /\ clientClosed' = TRUE
  /\ piped' = IF piped = "flowing" THEN "unpiped" ELSE piped
  /\ UNCHANGED <<config, pc, req, handlerEntered, poolCalls, upstreamCalls,
                 responses, statusCode, headersSent, resEnded, written,
                 reqClosed, closeListener, cancelCalled, streamVars>>

Next ==
  \/ \E h \in Headers, b \in Bodies : GetModels(h, b)
  \/ \E h \in {NoHeader, <<"B", "s">>}, b \in Bodies : GetHealth(h, b)
  \/ \E h \in Headers, b \in Bodies : GetCookiesStatus(h, b)
  \/ \E h \in Headers, c \in ChatBodies : PostChat(h, c[1], c[2], c[3])
  \/ ReqClose
  \/ AwaitResolve
  \/ AwaitReject
  \/ \E f \in Frames : UpstreamWrite(f)
  \/ UpstreamEnd
  \/ \E k \in 1..Len(wire) : StreamData(k)
  \/ StreamEnd
  \/ StreamError
  \/ ClientClose

Spec == Init /\ [][Next]_vars

\* the request handlers alone, up to the response or the upstream call
HttpNext ==
  \/ \E h \in Headers, b \in Bodies : GetModels(h, b)
  \/ \E h \in {NoHeader, <<"B", "s">>}, b \in Bodies : GetHealth(h, b)
  \/ \E h \in Headers, b \in Bodies : GetCookiesStatus(h, b)
  \/ \E h \in Headers, c \in ChatBodies : PostChat(h, c[1], c[2], c[3])

HttpSpec == Init /\ [][HttpNext]_vars

\* a process that initialized with one valid cookie and one valid route
ChatInit ==
  /\ Init
  /\ INITIALIZED_SUCCESSFULLY
  /\ cookies = <<"Valid">>
  /\ proxies = <<"Valid">>

\* chat requests of a client that holds the configured token
ChatNext ==
  \/ \E c \in ChatBodies : PostChat(<<"B", "s">>, c[1], c[2], c[3])
  \/ ReqClose
  \/ AwaitResolve
  \/ AwaitReject
  \/ \E f \in Frames : UpstreamWrite(f)
  \/ UpstreamEnd
  \/ \E k \in 1..Len(wire) : StreamData(k)
  \/ StreamEnd
  \/ StreamError
  \/ ClientClose

ChatSpec == ChatInit /\ [][ChatNext]_vars

\* the event loop delivers the buffered data and the 'end' event of a
\* stream that flows (StreamData and StreamEnd are disabled once the pipe
\* is paused or removed); what the upstream and the client do is not under
\* the server's control
FairSpec ==
  /\ ChatSpec
  /\ WF_vars(\E k \in 1..Len(wire) : StreamData(k))
  /\ WF_vars(StreamEnd)

\* =============================================================== properties
AuthRoutes == {"models", "chat", "cookies"}

Handled == pc # "idle"

NonStreaming == req.route = "chat" /\ handlerEntered /\ ~req.stream

CompletionSent == responses # <<>> /\ responses[1].kind = "completion"

\* the payload of a frame `data: <payload>` + line break
Payload(frame) == SubSeq(frame, 2, Len(frame) - 1)

IsValidEvent(frame) == JSONparse(Payload(frame)).ok

IsMalformedEvent(frame) == frame # EvDone /\ ~IsValidEvent(frame)

EventContent(frame) ==
  IF IsValidEvent(frame) THEN JSONparse(Payload(frame)).content ELSE <<>>

EventFinish(frame) ==
  IF IsValidEvent(frame) /\ frame[Len(frame) - 1] = "L" THEN "length" ELSE "null"

\* the events before the first `data: [DONE]`
RECURSIVE UpToDone(_)
UpToDone(evs) ==
  IF evs = <<>> \/ Head(evs) = EvDone THEN <<>>
  ELSE <<Head(evs)>> \o UpToDone(Tail(evs))

RECURSIVE ExpectedContent(_)
ExpectedContent(evs) ==
  IF evs = <<>> THEN <<>>
  ELSE EventContent(Head(evs)) \o ExpectedContent(Tail(evs))

RECURSIVE ExpectedFinish(_)
ExpectedFinish(evs) ==
  IF evs = <<>> THEN "stop"
  ELSE IF EventFinish(evs[Len(evs)]) # "null" THEN EventFinish(evs[Len(evs)])
  ELSE ExpectedFinish(SubSeq(evs, 1, Len(evs) - 1))

\* the content the handler assembles when every read is exactly one event
RECURSIVE AlignedChunks(_, _)
AlignedChunks(acc, evs) ==
  IF evs = <<>> THEN acc ELSE AlignedChunks(onData(acc, Head(evs)), Tail(evs))

\* the token an Authorization header carries: the text after `Bearer ` up to
\* the next space
RECURSIVE UntilSpace(_)
UntilSpace(s) ==
  IF s = <<>> \/ Head(s) = " " THEN <<>>
  ELSE IF Head(s) = "B" THEN <<"Bearer">>
  ELSE <<Head(s)>> \o UntilSpace(Tail(s))

BadCredentials(h) ==
  \/ h = NoHeader
  \/ h = <<>>
  \/ h[1] # "B"
  \/ UntilSpace(Tail(h)) # EXPECTED_TOKEN

\* C1: an authenticated chat request whose `messages` is absent, not an
\* array or empty is answered 400 in every state of the system, and no
\* operation of either pool is invoked while handling it.
C1_InvalidMessagesRejected ==
  (Handled /\ req.route = "chat" /\ handlerEntered /\ messagesInvalid(req.messages))
    => /\ responses = <<ErrorResponse(400, "invalid_request_error")>>
       /\ poolCalls = {}

\* C2: on an authenticated route, a missing header, a header that does not
\* start with `Bearer ` or a token other than the configured secret gets 401
\* authentication_error and the handler is not entered (no pool is read, no
\* upstream call is made); the handler runs only when the token is the secret.
C2_AuthGate ==
  (Handled /\ req.route \in AuthRoutes)
    => IF BadCredentials(req.authorization)
       THEN /\ ~handlerEntered
            /\ responses = <<ErrorResponse(401, "authentication_error")>>
            /\ poolCalls = {}
            /\ upstreamCalls = 0
       ELSE handlerEntered

\* C3: when the client's transport closes after the upstream call was
\* started, in either mode, the cancellation entry point is called; after the
\* close nothing more is written to the response (no completion, no chunk)
\* and the stream is not reported as failed.
C3_CloseCancels ==
  [][/\ (clientClosed' /\ upstreamCalls >= 1) => cancelCalled'
     /\ clientClosed => /\ responses' = responses
                        /\ written' = written
                        /\ Len(terminal') > Len(terminal)
                             => terminal'[Len(terminal')] # "error"]_vars

\* C4: in streaming mode, once the upstream stream fails after the response
\* has started and before end-of-stream, the response is eventually ended
\* (without `data: [DONE]` being appended by the server).
C4_FailureEndsResponse ==
  (/\ req.route = "chat" /\ req.stream /\ pc = "attached"
   /\ headersSent /\ written # <<>>
   /\ terminal # <<>> /\ terminal[1] = "error")
    ~> resEnded

\* C5: the aggregated completion of a non-streaming request has content equal
\* to the concatenation of every delta content in emission order and
\* finish_reason equal to the last non-null finish reason of the upstream
\* events, "stop" only if no event carried one.
C5_AggregateFolds ==
  (NonStreaming /\ CompletionSent)
    => /\ responses[1].content = ExpectedContent(UpToDone(events))
       /\ responses[1].finish_reason = ExpectedFinish(UpToDone(events))

\* the responses put on an open connection
IsSent(r) == r.sent

SentResponses == SelectSeq(responses, IsSent)

\* C6: a non-streaming request is sent exactly one response whatever the
\* order of the stream's data, end and error events: the completion if the
\* stream ends before any failure, a 500 error and no completion if it fails
\* before it ends, never both. Nothing is sent on a connection the client
\* has closed.
C6_ExactlyOneResponse ==
  NonStreaming
    => /\ Len(SentResponses) <= 1
       /\ clientClosed => SentResponses = <<>>
       /\ (pc = "done" /\ ~clientClosed) => Len(SentResponses) = 1
       /\ (terminal # <<>> /\ ~clientClosed)
            => /\ Len(SentResponses) = 1
               /\ IF terminal[1] = "end"
                  THEN /\ SentResponses[1].kind = "completion"
                       /\ SentResponses[1].status = 200
                  ELSE /\ SentResponses[1].kind = "error"
                       /\ SentResponses[1].status = 500

C6_Witness ==
  /\ NonStreaming
  /\ ~clientClosed
  /\ events # <<>>
  /\ terminal = <<"error", "end">>
  /\ Len(SentResponses) = 1
  /\ SentResponses[1].kind = "error"
  /\ SentResponses[1].status = 500

\* C7: a chat-completion request (authenticated, with a non-empty messages
\* array) is answered 500 server_error without an upstream call whenever the
\* credential pool has no valid credential or the egress pool no valid route.
C7_ExhaustedPoolFailsFast ==
  (/\ Handled /\ req.route = "chat" /\ handlerEntered
   /\ ~messagesInvalid(req.messages)
   /\ (getValidCount(cookies) = 0 \/ getValidCount(proxies) = 0))
    => /\ upstreamCalls = 0
       /\ responses = <<ErrorResponse(500, "server_error")>>

\* the index of the event a read delivers, when the read is exactly one
\* whole event of the upstream sequence; 0 otherwise
ReadEvent(evs, before, after) ==
  LET consumed == Len(join(evs)) - Len(before)
      hits == {j \in 1..Len(evs) :
                 /\ Len(join(SubSeq(evs, 1, j - 1))) = consumed
                 /\ Len(before) - Len(after) = Len(evs[j])}
  IN IF hits = {} THEN 0 ELSE CHOOSE j \in hits : TRUE

\* C8: in non-streaming mode a valid event that follows a malformed event
\* (itself preceded by a valid event) still contributes its delta content
\* to the aggregate.
C8_ValidAfterMalformedCounts ==
  [][(/\ NonStreaming /\ pc = "attached"
      /\ events' = events /\ Len(wire') < Len(wire))
       => LET j == ReadEvent(events, wire, wire') IN
            (/\ j >= 3
             /\ IsValidEvent(events[j])
             /\ EventContent(events[j]) # <<>>
             /\ \E i \in 2..(j - 1) :
                   /\ IsMalformedEvent(events[i])
                   /\ \E h \in 1..(i - 1) : IsValidEvent(events[h]))
              => chunks' = Append(chunks, EventContent(events[j]))]_vars

\* C9: for a sequence of events ended by `data: [DONE]`, the aggregated
\* content is the same for every way of cutting the byte stream into reads:
\* it is the content obtained when each read is exactly one event.
C9_ReadBoundariesIrrelevant ==
  (/\ NonStreaming /\ CompletionSent
   /\ events # <<>>
   /\ events[Len(events)] = EvDone
   /\ \A i \in 1..(Len(events) - 1) : events[i] # EvDone)
    => responses[1].content = join(AlignedChunks(<<>>, events))

\* C10: total_cookies of GET /cookies/status is the number of entries of the
\* cookies snapshot of the same response.
C10_TotalIsSnapshotSize ==
  (pc = "done" /\ req.route = "cookies" /\ handlerEntered)
    => responses[1].total_cookies = Len(responses[1].cookies)

====
